---- MODULE Spec2Model ----
(***************************************************************************)
(* Model of the trip-planning workflow of backend/app: the LangGraph graph *)
(* built in api/router.py, the six node functions and the retry helper of  *)
(* agent/nodes.py, the AgentState of agent/graph.py and the event          *)
(* projection of run_agent_stream.                                         *)
(*                                                                         *)
(* Text is modelled as a sequence of words (strings); str.lower() maps     *)
(* every word through LowerWord and the substring test "error" in s is a   *)
(* test for a word that contains the letters e-r-r-o-r.                    *)
(***************************************************************************)
EXTENDS Integers, Sequences, FiniteSets, TLC

\* ------------------------------------------------------------------ bounds
\* Number of clock instants distinguished inside one calendar day.
TicksPerDay == 2

\* ------------------------------------------------------------------ text
\* str.lower() on one word of the vocabulary used by the model.
LowerWord(w) ==
    CASE w = "Error:"    -> "error:"
      [] w = "Error"     -> "error"
      [] w = "ERROR"     -> "error"
      [] w = "Errors"    -> "errors"
      [] w = "I"         -> "i"
      [] w = "An"        -> "an"
      [] w = "The"       -> "the"
      [] w = "AI"        -> "ai"
      [] w = "No"        -> "no"
      [] w = "Please"    -> "please"
      [] w = "Could"     -> "could"
      [] w = "Missing"   -> "missing"
      [] w = "Departure" -> "departure"
      [] w = "Return"    -> "return"
      [] w = "Invalid"   -> "invalid"
      [] w = "YYYY-MM-DD" -> "yyyy-mm-dd"
      [] w = "**Details:**" -> "**details:**"
      [] w = "Flight"    -> "flight"
      [] w = "Hotel"     -> "hotel"
      [] w = "Taj"       -> "taj"
      [] w = "Visit"     -> "visit"
      [] w = "Have"      -> "have"
      [] w = "Email"     -> "email"
      [] w = "Internal"  -> "internal"
      [] w = "Server"    -> "server"
      [] w = "ParsedTripRequest" -> "parsedtriprequest"
      [] OTHER           -> w

\* str.lower() on a text.
Lower(s) == [i \in 1..Len(s) |-> LowerWord(s[i])]

\* The lower-case words that have "error" as a substring.
ErrorWords == {"error", "error:", "errors"}

\* "error" in s.lower()
ContainsError(s) == \E i \in 1..Len(s) : Lower(s)[i] \in ErrorWords

\* needle in s, for a non-empty needle: a contiguous run of words.
Contains(s, needle) ==
    \E i \in 0..(Len(s) - Len(needle)) :
        \A j \in 1..Len(needle) : s[i + j] = needle[j]

\* ', '.join(fields)
RECURSIVE Join(_)
Join(fields) ==
    IF Len(fields) = 0 THEN << >>
    ELSE IF Len(fields) = 1 THEN << fields[1] >>
    ELSE << fields[1], "," >> \o Join(Tail(fields))

\* ------------------------------------------------------------------ values
\* Marks a key that the extracted JSON object does not have.
Absent == "<absent>"
\* Python's None (a JSON null).
None == "<None>"

\* Outcomes of one call of an external collaborator (llm.invoke,
\* agent_executor.invoke, send_email_tool.invoke): it returns a text, raises
\* ResourceExhausted, or raises another exception; text is the returned text
\* or str(e).
OkOutcome(t)   == [kind |-> "ok",   text |-> t]
RateOutcome    == [kind |-> "rate", text |-> << "429", "quota", "exceeded" >>]
ExcOutcome(t)  == [kind |-> "exc",  text |-> t]
ExcTexts       == { << "connection", "reset" >>,
                    << "500", "Internal", "Server", "Error" >> }

\* ------------------------------------------------------------------ retry
\* The value retry_with_backoff gives back: kind "return" (value is the
\* result of func), "raise_rate" (ResourceExhausted re-raised on the last
\* attempt), "raise_exc" (another exception, propagated at once) or "none"
\* (the loop body never ran); invocations counts the calls of func and sleeps
\* lists the time.sleep delays in order.
RetryResult(k, v, n, sl) ==
    [kind |-> k, value |-> v, invocations |-> n, sleeps |-> sl]

\* Faulty variant: 2 * attempt instead of 2 ** attempt.
Pow2_times(n) == 2 * n

RECURSIVE Pow2(_)
Pow2(n) == IF n = 0 THEN 1 ELSE 2 * Pow2(n - 1)

\* Faulty variant: no test for the last attempt, the loop sleeps after every
\* rate-limit failure and then runs out.
RECURSIVE RetryLoop_sleeps_after_last(_, _, _, _, _)
RetryLoop_sleeps_after_last(outs, attempt, max_retries, initial_delay, sleeps) ==
    IF attempt >= max_retries
    THEN RetryResult("none", << >>, attempt, sleeps)
    ELSE LET o == outs[attempt + 1] IN
         CASE o.kind = "ok" ->
                RetryResult("return", o.text, attempt + 1, sleeps)
           [] o.kind = "rate" ->
                RetryLoop_sleeps_after_last(outs, attempt + 1, max_retries,
                    initial_delay, Append(sleeps, initial_delay * Pow2(attempt)))
           [] OTHER ->
                RetryResult("raise_exc", o.text, attempt + 1, sleeps)

\* Faulty variant: every exception is retried, not only ResourceExhausted.
RECURSIVE RetryLoop_retries_any(_, _, _, _, _)
RetryLoop_retries_any(outs, attempt, max_retries, initial_delay, sleeps) ==
    IF attempt >= max_retries
    THEN RetryResult("none", << >>, attempt, sleeps)
    ELSE LET o == outs[attempt + 1] IN
         CASE o.kind = "ok" ->
                RetryResult("return", o.text, attempt + 1, sleeps)
           [] OTHER ->
                IF attempt = max_retries - 1
                THEN RetryResult(IF o.kind = "rate" THEN "raise_rate" ELSE "raise_exc",
                                 o.text, attempt + 1, sleeps)
                ELSE RetryLoop_retries_any(outs, attempt + 1, max_retries,
                        initial_delay, Append(sleeps, initial_delay * Pow2(attempt)))

\* The for loop of retry_with_backoff from iteration `attempt` on; outs[i] is
\* the outcome of the i-th call of func.
RECURSIVE RetryLoop(_, _, _, _, _)
RetryLoop(outs, attempt, max_retries, initial_delay, sleeps) ==
    IF attempt >= max_retries
    THEN RetryResult("none", << >>, attempt, sleeps)
    ELSE LET o == outs[attempt + 1] IN
         CASE o.kind = "ok" ->
                RetryResult("return", o.text, attempt + 1, sleeps)
           [] o.kind = "rate" ->
                IF attempt = max_retries - 1
                THEN RetryResult("raise_rate", o.text, attempt + 1, sleeps)
                ELSE RetryLoop(outs, attempt + 1, max_retries, initial_delay,
                               Append(sleeps, initial_delay * Pow2(attempt)))
           [] OTHER ->
                RetryResult("raise_exc", o.text, attempt + 1, sleeps)

retry_with_backoff(outs, max_retries, initial_delay) ==
    RetryLoop(outs, 0, max_retries, initial_delay, << >>)

\* Defaults of retry_with_backoff's parameters; every node uses them.
DefaultMaxRetries   == 3
DefaultInitialDelay == 1

\* ------------------------------------------------------------------ state
\* AgentState is a TypedDict without reducers: the graph keeps one value per
\* key and a node's update replaces the value of every key it names.  A key
\* that no node has written is absent from the state a node receives.
Merge(st, update) == update @@ st

\* state.get(key) is truthy (the values are texts or lists).
Truthy(st, key) == key \in DOMAIN st /\ st[key] /= << >>

\* state.get("intermediate_steps", [])
GetSteps(st) ==
    IF "intermediate_steps" \in DOMAIN st THEN st.intermediate_steps ELSE << >>

\* ------------------------------------------------------------------ parse
\* The date strings the model distinguishes and, for the well-formed ones,
\* the calendar day datetime.strptime(s, "%Y-%m-%d") gives.
WellFormedDates == {"2030-01-01", "2030-01-02", "2030-01-03", "2030-01-04"}
DayNumber(s) ==
    CASE s = "2030-01-01" -> 1
      [] s = "2030-01-02" -> 2
      [] s = "2030-01-03" -> 3
      [] s = "2030-01-04" -> 4

\* datetime.strptime(s, "%Y-%m-%d"): the instant of midnight of that day, or
\* ValueError.
strptime(s) ==
    IF s \in WellFormedDates
    THEN [ok |-> TRUE,  instant |-> DayNumber(s) * TicksPerDay]
    ELSE [ok |-> FALSE, instant |-> 0]

\* str(e) of the ValueError strptime raises.
ValueErrorText == << "time", "data", "does", "not", "match", "format" >>

\* The calendar day of the clock, and the instants datetime.now() can give.
Today == 2
ClockInstants == { Today * TicksPerDay + t : t \in 0..(TicksPerDay - 1) }

\* EmailStr validation of ParsedTripRequest.user_email: Optional[EmailStr].
ValidEmails == {"a@b.co"}
EmailValidates(v) == v = None \/ v \in ValidEmails

\* str(e) of the pydantic ValidationError.
ValidationErrorText ==
    << "1", "validation", "error", "for", "ParsedTripRequest" >>

\* parsed_data.get(key, default)
DataGet(data, key, default) == IF key \in DOMAIN data THEN data[key] ELSE default

\* Faulty variant: a test for None instead of a test for falsiness.
Falsy_only_none(data, key) == DataGet(data, key, None) = None

\* not parsed_data.get(key)
Falsy(data, key) == DataGet(data, key, None) \in {None, ""}

\* The response of llm.invoke(parse_prompt) after the cleaning of lines
\* 90-93, by what the JSON extraction of lines 96-118 makes of it:
\*   "json"      json.loads succeeds on the whole content;
\*   "wrapped"   json.loads fails, the regex finds {...} and it loads;
\*   "badbraces" json.loads fails, the regex finds {...}, loading it fails;
\*   "nojson"    json.loads fails and the regex finds nothing;
\*   "nondict"   json.loads succeeds with a value that is not an object.
\* data is the loaded object, a function from its keys to their values.
ParseResponse(k, sh, d, t) == [kind |-> k, shape |-> sh, data |-> d, text |-> t]

MissingFields(data) ==
    (IF Falsy(data, "origin") THEN << "origin" >> ELSE << >>) \o
    (IF Falsy(data, "destination") THEN << "destination" >> ELSE << >>) \o
    (IF Falsy(data, "departure_date") THEN << "departure date" >> ELSE << >>) \o
    (IF Falsy(data, "return_date") THEN << "return date" >> ELSE << >>)

\* ParsedTripRequest(...): the fields the model keeps; the other keyword
\* arguments are not fields of the schema and are dropped.
ParsedTripRequest(data) ==
    [origin         |-> data["origin"],
     destination    |-> data["destination"],
     departure_date |-> data["departure_date"],
     return_date    |-> data["return_date"],
     user_email     |-> DataGet(data, "user_email", "")]

\* Faulty variant: a return on the day of departure is accepted.
ParseValidate_allows_same_day(st, data, clock) ==
    LET missing == MissingFields(data)
        dep == strptime(data["departure_date"])
        ret == strptime(data["return_date"])
    IN
    IF Len(missing) > 0 THEN
        [error |-> << "Missing", "required", "information:" >> \o Join(missing)
                   \o << ".", "Please", "provide", "these", "details." >>,
         intermediate_steps |->
            << << "[x]", "Missing", "required", "information:" >> \o Join(missing) >>]
    ELSE IF ~dep.ok \/ ~ret.ok THEN
        [error |-> << "Invalid", "date", "format:" >> \o ValueErrorText
                   \o << ".", "Please", "use", "YYYY-MM-DD", "format." >>,
         intermediate_steps |->
            << << "[x]", "Invalid", "date", "format.", "Please", "use",
                  "YYYY-MM-DD", "format." >> >>]
    ELSE IF dep.instant < clock THEN
        [error |-> << "Departure", "date", "must", "be", "in", "the", "future." >>,
         intermediate_steps |->
            << << "[x]", "Departure", "date", "must", "be", "in", "the", "future." >> >>]
    ELSE IF ret.instant < dep.instant THEN
        [error |-> << "Return", "date", "must", "be", "after", "departure", "date." >>,
         intermediate_steps |->
            << << "[x]", "Return", "date", "must", "be", "after", "departure", "date." >> >>]
    ELSE IF ~EmailValidates(DataGet(data, "user_email", "")) THEN
        \* ValidationError, caught by the handler of line 176
        [error |-> << "An", "unexpected", "error", "occurred:" >> \o ValidationErrorText,
         intermediate_steps |->
            << << "[x]", "An", "unexpected", "error", "occurred", "while",
                  "parsing", "your", "request." >> >>]
    ELSE
        [parsed_prompt |-> ParsedTripRequest(data),
         intermediate_steps |->
            Append(GetSteps(st), << "[ok]", "Successfully", "parsed", "trip", "details." >>)]

\* Faulty variant: the departure is compared with the midnight of the current
\* day, not with the current instant.
ParseValidate_compares_days(st, data, clock) ==
    LET missing == MissingFields(data)
        dep == strptime(data["departure_date"])
        ret == strptime(data["return_date"])
    IN
    IF Len(missing) > 0 THEN
        [error |-> << "Missing", "required", "information:" >> \o Join(missing)
                   \o << ".", "Please", "provide", "these", "details." >>,
         intermediate_steps |->
            << << "[x]", "Missing", "required", "information:" >> \o Join(missing) >>]
    ELSE IF ~dep.ok \/ ~ret.ok THEN
        [error |-> << "Invalid", "date", "format:" >> \o ValueErrorText
                   \o << ".", "Please", "use", "YYYY-MM-DD", "format." >>,
         intermediate_steps |->
            << << "[x]", "Invalid", "date", "format.", "Please", "use",
                  "YYYY-MM-DD", "format." >> >>]
    ELSE IF dep.instant < (clock \div TicksPerDay) * TicksPerDay THEN
        [error |-> << "Departure", "date", "must", "be", "in", "the", "future." >>,
         intermediate_steps |->
            << << "[x]", "Departure", "date", "must", "be", "in", "the", "future." >> >>]
    ELSE IF ret.instant <= dep.instant THEN
        [error |-> << "Return", "date", "must", "be", "after", "departure", "date." >>,
         intermediate_steps |->
            << << "[x]", "Return", "date", "must", "be", "after", "departure", "date." >> >>]
    ELSE IF ~EmailValidates(DataGet(data, "user_email", "")) THEN
        \* ValidationError, caught by the handler of line 176
        [error |-> << "An", "unexpected", "error", "occurred:" >> \o ValidationErrorText,
         intermediate_steps |->
            << << "[x]", "An", "unexpected", "error", "occurred", "while",
                  "parsing", "your", "request." >> >>]
    ELSE
        [parsed_prompt |-> ParsedTripRequest(data),
         intermediate_steps |->
            Append(GetSteps(st), << "[ok]", "Successfully", "parsed", "trip", "details." >>)]

\* Lines 120-174 of parse_user_prompt_node: validation of the loaded object.
ParseValidate(st, data, clock) ==
    LET missing == MissingFields(data)
        dep == strptime(data["departure_date"])
        ret == strptime(data["return_date"])
    IN
    IF Len(missing) > 0 THEN
        [error |-> << "Missing", "required", "information:" >> \o Join(missing)
                   \o << ".", "Please", "provide", "these", "details." >>,
         intermediate_steps |->
            << << "[x]", "Missing", "required", "information:" >> \o Join(missing) >>]
    ELSE IF ~dep.ok \/ ~ret.ok THEN
        [error |-> << "Invalid", "date", "format:" >> \o ValueErrorText
                   \o << ".", "Please", "use", "YYYY-MM-DD", "format." >>,
         intermediate_steps |->
            << << "[x]", "Invalid", "date", "format.", "Please", "use",
                  "YYYY-MM-DD", "format." >> >>]
    ELSE IF dep.instant < clock THEN
        [error |-> << "Departure", "date", "must", "be", "in", "the", "future." >>,
         intermediate_steps |->
            << << "[x]", "Departure", "date", "must", "be", "in", "the", "future." >> >>]
    ELSE IF ret.instant <= dep.instant THEN
        [error |-> << "Return", "date", "must", "be", "after", "departure", "date." >>,
         intermediate_steps |->
            << << "[x]", "Return", "date", "must", "be", "after", "departure", "date." >> >>]
    ELSE IF ~EmailValidates(DataGet(data, "user_email", "")) THEN
        \* ValidationError, caught by the handler of line 176
        [error |-> << "An", "unexpected", "error", "occurred:" >> \o ValidationErrorText,
         intermediate_steps |->
            << << "[x]", "An", "unexpected", "error", "occurred", "while",
                  "parsing", "your", "request." >> >>]
    ELSE
        [parsed_prompt |-> ParsedTripRequest(data),
         intermediate_steps |->
            Append(GetSteps(st), << "[ok]", "Successfully", "parsed", "trip", "details." >>)]

\* parse_user_prompt_node(state): resp is what llm.invoke does when it is
\* called, clock is datetime.now().  Gives the node's update and the number
\* of llm.invoke calls made.
parse_user_prompt_node(st, resp, clock) ==
    IF st.user_prompt = << >> THEN
        [update |->
            [error |-> << "No", "prompt", "provided.", "Please", "provide",
                          "your", "trip", "details." >>,
             intermediate_steps |-> << << "[x]", "No", "trip", "details", "provided." >> >>],
         llm |-> 0]
    ELSE
        [llm |-> 1,
         update |->
           CASE resp.kind /= "ok" \/ resp.shape = "nondict" ->
                  \* an exception inside the try block: line 176
                  [error |-> << "An", "unexpected", "error", "occurred:" >> \o resp.text,
                   intermediate_steps |->
                      << << "[x]", "An", "unexpected", "error", "occurred", "while",
                            "parsing", "your", "request." >> >>]
             [] resp.kind = "ok" /\ resp.shape = "badbraces" ->
                  [error |-> << "Could", "not", "parse", "the", "response.", "Please",
                                "try", "again", "with", "clearer", "trip", "details." >>,
                   intermediate_steps |->
                      << << "[x]", "Could", "not", "parse", "trip", "details.",
                            "Please", "try", "again." >> >>]
             [] resp.kind = "ok" /\ resp.shape = "nojson" ->
                  [error |-> << "Could", "not", "find", "valid", "trip", "details",
                                "in", "the", "response.", "Please", "try", "again." >>,
                   intermediate_steps |->
                      << << "[x]", "Could", "not", "find", "valid", "trip", "details.",
                            "Please", "try", "again." >> >>]
             [] OTHER -> ParseValidate(st, resp.data, clock)]

\* ------------------------------------------------------------------ search
BusyText ==
    << "The", "AI", "model", "is", "currently", "busy", "due", "to", "high",
       "demand.", "Please", "try", "again", "in", "a", "few", "minutes." >>

\* Faulty variant: the success path starts a new log instead of extending
\* the accumulated one.
flight_search_node_replaces_log(st, outs) ==
    LET r == retry_with_backoff(outs, DefaultMaxRetries, DefaultInitialDelay) IN
    [agent |-> r.invocations,
     update |->
       CASE r.kind = "return" /\ ContainsError(r.value) -> [error |-> r.value]
         [] r.kind = "return" /\ ~ContainsError(r.value) ->
              [flight_info |-> r.value,
               intermediate_steps |->
                  << << "[flight]", "Searched", "for", "flight", "options." >> >>]
         [] r.kind = "raise_rate" -> [error |-> BusyText]
         [] OTHER ->
              [error |-> << "An", "unexpected", "error", "occurred", "while",
                            "searching", "for", "flights." >>]]

\* flight_search_node(state); outs[i] is the outcome of the i-th call of
\* agent_executor.invoke.  Gives the update and the number of agent calls.
flight_search_node(st, outs) ==
    LET r == retry_with_backoff(outs, DefaultMaxRetries, DefaultInitialDelay) IN
    [agent |-> r.invocations,
     update |->
       CASE r.kind = "return" /\ ContainsError(r.value) -> [error |-> r.value]
         [] r.kind = "return" /\ ~ContainsError(r.value) ->
              [flight_info |-> r.value,
               intermediate_steps |->
                  Append(st.intermediate_steps,
                         << "[flight]", "Searched", "for", "flight", "options." >>)]
         [] r.kind = "raise_rate" -> [error |-> BusyText]
         [] OTHER ->
              [error |-> << "An", "unexpected", "error", "occurred", "while",
                            "searching", "for", "flights." >>]]

\* Faulty variant: an output that contains "error" is still logged as a
\* successful search.
hotel_search_node_logs_failure(st, outs) ==
    LET r == retry_with_backoff(outs, DefaultMaxRetries, DefaultInitialDelay) IN
    [agent |-> r.invocations,
     update |->
       CASE r.kind = "return" /\ ContainsError(r.value) ->
              [error |-> r.value,
               intermediate_steps |->
                  Append(st.intermediate_steps,
                         << "[hotel]", "Searched", "for", "accommodation", "options." >>)]
         [] r.kind = "return" /\ ~ContainsError(r.value) ->
              [hotel_info |-> r.value,
               intermediate_steps |->
                  Append(st.intermediate_steps,
                         << "[hotel]", "Searched", "for", "accommodation", "options." >>)]
         [] r.kind = "raise_rate" -> [error |-> BusyText]
         [] OTHER ->
              [error |-> << "An", "unexpected", "error", "occurred", "while",
                            "searching", "for", "hotels." >>]]

\* Faulty variant: the hotel search also overwrites the flight field.
hotel_search_node_writes_flight_info(st, outs) ==
    LET r == retry_with_backoff(outs, DefaultMaxRetries, DefaultInitialDelay) IN
    [agent |-> r.invocations,
     update |->
       CASE r.kind = "return" /\ ContainsError(r.value) -> [error |-> r.value]
         [] r.kind = "return" /\ ~ContainsError(r.value) ->
              [hotel_info |-> r.value,
               flight_info |-> r.value,
               intermediate_steps |->
                  Append(st.intermediate_steps,
                         << "[hotel]", "Searched", "for", "accommodation", "options." >>)]
         [] r.kind = "raise_rate" -> [error |-> BusyText]
         [] OTHER ->
              [error |-> << "An", "unexpected", "error", "occurred", "while",
                            "searching", "for", "hotels." >>]]

\* hotel_search_node(state)
hotel_search_node(st, outs) ==
    LET r == retry_with_backoff(outs, DefaultMaxRetries, DefaultInitialDelay) IN
    [agent |-> r.invocations,
     update |->
       CASE r.kind = "return" /\ ContainsError(r.value) -> [error |-> r.value]
         [] r.kind = "return" /\ ~ContainsError(r.value) ->
              [hotel_info |-> r.value,
               intermediate_steps |->
                  Append(st.intermediate_steps,
                         << "[hotel]", "Searched", "for", "accommodation", "options." >>)]
         [] r.kind = "raise_rate" -> [error |-> BusyText]
         [] OTHER ->
              [error |-> << "An", "unexpected", "error", "occurred", "while",
                            "searching", "for", "hotels." >>]]

\* Faulty variant: the output is tested for "error" as in the other two
\* search nodes.
activities_search_node_checks_error(st, outs) ==
    LET r == retry_with_backoff(outs, DefaultMaxRetries, DefaultInitialDelay) IN
    [agent |-> r.invocations,
     update |->
       CASE r.kind = "return" /\ ContainsError(r.value) -> [error |-> r.value]
         [] r.kind = "return" /\ ~ContainsError(r.value) ->
              [activity_info |-> r.value,
               intermediate_steps |->
                  Append(st.intermediate_steps,
                         << "[map]", "Researched", "local", "attractions", "and",
                            "activities." >>)]
         [] r.kind = "raise_rate" -> [error |-> BusyText]
         [] OTHER ->
              [error |-> << "An", "unexpected", "error", "occurred", "while",
                            "researching", "activities." >>]]

\* activities_search_node(state): no test of the output for "error".
activities_search_node(st, outs) ==
    LET r == retry_with_backoff(outs, DefaultMaxRetries, DefaultInitialDelay) IN
    [agent |-> r.invocations,
     update |->
       CASE r.kind = "return" ->
              [activity_info |-> r.value,
               intermediate_steps |->
                  Append(st.intermediate_steps,
                         << "[map]", "Researched", "local", "attractions", "and",
                            "activities." >>)]
         [] r.kind = "raise_rate" -> [error |-> BusyText]
         [] OTHER ->
              [error |-> << "An", "unexpected", "error", "occurred", "while",
                            "researching", "activities." >>]]

\* ------------------------------------------------------------------ compile
\* The texts llm.invoke(prompt) can return in the compile step.
PlanTexts == { << >>, << "Have", "a", "wonderful", "trip!" >>,
               << "No", "errors", "in", "this", "plan" >> }

ApologyPrefix ==
    << "I", "apologize,", "but", "I", "couldn't", "complete", "your", "trip",
       "plan", "due", "to", "an", "issue:", "**Details:**" >>

\* Faulty variant: after the last rate-limit failure the whole retry is run
\* once more.
CompileWithLlm_retries_again(st, outs) ==
    LET r == retry_with_backoff(outs, DefaultMaxRetries, DefaultInitialDelay) IN
    [llm |-> IF r.kind = "raise_rate" THEN 2 * r.invocations ELSE r.invocations,
     update |->
       CASE r.kind \in {"return", "none"} -> [final_plan |-> r.value]
         [] r.kind = "raise_rate" ->
              [final_plan |->
                 << "I", "apologize,", "but", "I'm", "currently", "experiencing",
                    "high", "demand.", "Please", "try", "again", "in", "a",
                    "few", "minutes." >>]
         [] OTHER ->
              [final_plan |->
                 << "An", "unexpected", "error", "occurred", "while", "compiling",
                    "your", "trip", "plan.", "Please", "try", "again." >>]]

\* Lines 289-324 of compile_plan_node: the branch that calls the
\* text-completion service; outs[i] is the outcome of the i-th call of
\* llm.invoke(prompt).
CompileWithLlm(st, outs) ==
    LET r == retry_with_backoff(outs, DefaultMaxRetries, DefaultInitialDelay) IN
    [llm |-> r.invocations,
     update |->
       CASE r.kind \in {"return", "none"} -> [final_plan |-> r.value]
         [] r.kind = "raise_rate" ->
              [final_plan |->
                 << "I", "apologize,", "but", "I'm", "currently", "experiencing",
                    "high", "demand.", "Please", "try", "again", "in", "a",
                    "few", "minutes." >>]
         [] OTHER ->
              [final_plan |->
                 << "An", "unexpected", "error", "occurred", "while", "compiling",
                    "your", "trip", "plan.", "Please", "try", "again." >>]]

\* Faulty variant: the error branch also resets the error field.
compile_plan_node_clears_error(st, outs) ==
    IF Truthy(st, "error") THEN
        [llm |-> 0,
         update |-> [final_plan |-> ApologyPrefix \o st.error, error |-> << >>]]
    ELSE CompileWithLlm(st, outs)

\* Faulty variant: no short cut on a recorded error.
compile_plan_node_ignores_error(st, outs) == CompileWithLlm(st, outs)

\* Faulty variant: a failed completion is reported in the error field.
compile_plan_node_sets_error(st, outs) ==
    IF Truthy(st, "error") THEN
        [llm |-> 0, update |-> [final_plan |-> ApologyPrefix \o st.error]]
    ELSE
        LET r == CompileWithLlm(st, outs) IN
        IF r.update.final_plan \in PlanTexts THEN r
        ELSE [llm |-> r.llm, update |-> [error |-> r.update.final_plan]]

\* compile_plan_node(state).  Gives the update and the number of llm calls.
compile_plan_node(st, outs) ==
    IF Truthy(st, "error") THEN
        [llm |-> 0, update |-> [final_plan |-> ApologyPrefix \o st.error]]
    ELSE CompileWithLlm(st, outs)

\* ------------------------------------------------------------------ email
\* Faulty variant: a failed delivery is also reported in the error field.
send_email_node_sets_error(st, out) ==
    IF "error" \in DOMAIN st \/ "parsed_prompt" \notin DOMAIN st THEN
        [email |-> 0,
         update |-> [intermediate_steps |->
            Append(GetSteps(st), << "[mail]", "No", "email", "sent", "due", "to",
                                    "incomplete", "trip", "details." >>)]]
    ELSE IF st.parsed_prompt.user_email \in {None, ""} THEN
        [email |-> 0,
         update |-> [intermediate_steps |->
            Append(st.intermediate_steps,
                   << "[mail]", "No", "email", "address", "provided,", "skipping",
                      "email", "sending." >>)]]
    ELSE
        [email |-> 1,
         update |->
           CASE out.kind = "ok" /\ ContainsError(out.text) ->
                  [error |-> out.text,
                   intermediate_steps |->
                     Append(st.intermediate_steps, << "[x]", "Failed", "to", "send", "email." >>)]
             [] out.kind = "ok" /\ ~ContainsError(out.text) ->
                  [intermediate_steps |->
                     Append(st.intermediate_steps,
                            << "[mail]", "Trip", "plan", "sent", "to", "your", "email." >>)]
             [] OTHER ->
                  [error |-> out.text,
                   intermediate_steps |->
                     Append(GetSteps(st),
                            << "[x]", "An", "error", "occurred", "while", "sending",
                               "the", "email." >>)]]

\* Faulty variant: a recorded error does not stop the delivery.
send_email_node_ignores_error(st, out) ==
    IF "parsed_prompt" \notin DOMAIN st THEN
        [email |-> 0,
         update |-> [intermediate_steps |->
            Append(GetSteps(st), << "[mail]", "No", "email", "sent", "due", "to",
                                    "incomplete", "trip", "details." >>)]]
    ELSE IF st.parsed_prompt.user_email \in {None, ""} THEN
        [email |-> 0,
         update |-> [intermediate_steps |->
            Append(st.intermediate_steps,
                   << "[mail]", "No", "email", "address", "provided,", "skipping",
                      "email", "sending." >>)]]
    ELSE
        [email |-> 1,
         update |->
           CASE out.kind = "ok" /\ ContainsError(out.text) ->
                  [intermediate_steps |->
                     Append(st.intermediate_steps, << "[x]", "Failed", "to", "send", "email." >>)]
             [] out.kind = "ok" /\ ~ContainsError(out.text) ->
                  [intermediate_steps |->
                     Append(st.intermediate_steps,
                            << "[mail]", "Trip", "plan", "sent", "to", "your", "email." >>)]
             [] OTHER ->
                  [intermediate_steps |->
                     Append(GetSteps(st),
                            << "[x]", "An", "error", "occurred", "while", "sending",
                               "the", "email." >>)]]

\* send_email_node(state); out is the outcome of send_email_tool.invoke when
\* it is called.  Gives the update and the number of sender calls.
send_email_node(st, out) ==
    IF "error" \in DOMAIN st \/ "parsed_prompt" \notin DOMAIN st THEN
        [email |-> 0,
         update |-> [intermediate_steps |->
            Append(GetSteps(st), << "[mail]", "No", "email", "sent", "due", "to",
                                    "incomplete", "trip", "details." >>)]]
    ELSE IF st.parsed_prompt.user_email \in {None, ""} THEN
        [email |-> 0,
         update |-> [intermediate_steps |->
            Append(st.intermediate_steps,
                   << "[mail]", "No", "email", "address", "provided,", "skipping",
                      "email", "sending." >>)]]
    ELSE
        [email |-> 1,
         update |->
           CASE out.kind = "ok" /\ ContainsError(out.text) ->
                  [intermediate_steps |->
                     Append(st.intermediate_steps, << "[x]", "Failed", "to", "send", "email." >>)]
             [] out.kind = "ok" /\ ~ContainsError(out.text) ->
                  [intermediate_steps |->
                     Append(st.intermediate_steps,
                            << "[mail]", "Trip", "plan", "sent", "to", "your", "email." >>)]
             [] OTHER ->
                  [intermediate_steps |->
                     Append(GetSteps(st),
                            << "[x]", "An", "error", "occurred", "while", "sending",
                               "the", "email." >>)]]

\* ------------------------------------------------------------------ graph
Nodes == {"parse_user_prompt", "find_flights", "find_hotels", "find_activities",
          "compile_plan", "send_email"}
END == "__end__"

\* Faulty variant: the routing never takes the error branch.
should_continue_never_error(st) == "continue_to_next_step"

should_continue(st) ==
    IF Truthy(st, "error") THEN "end_with_error" ELSE "continue_to_next_step"

\* Faulty variant: the edge out of find_flights is unconditional.
NextNode_flights_unconditional(node, st) ==
    CASE node = "parse_user_prompt" ->
           IF should_continue(st) = "continue_to_next_step"
           THEN "find_flights" ELSE "compile_plan"
      [] node = "find_flights" -> "find_hotels"
      [] node = "find_hotels" ->
           IF should_continue(st) = "continue_to_next_step"
           THEN "find_activities" ELSE "compile_plan"
      [] node = "find_activities" -> "compile_plan"
      [] node = "compile_plan" -> "send_email"
      [] node = "send_email" -> END

\* Faulty variant: the edge out of parse_user_prompt is unconditional.
NextNode_parse_unconditional(node, st) ==
    CASE node = "parse_user_prompt" -> "find_flights"
      [] node = "find_flights" ->
           IF should_continue(st) = "continue_to_next_step"
           THEN "find_hotels" ELSE "compile_plan"
      [] node = "find_hotels" ->
           IF should_continue(st) = "continue_to_next_step"
           THEN "find_activities" ELSE "compile_plan"
      [] node = "find_activities" -> "compile_plan"
      [] node = "compile_plan" -> "send_email"
      [] node = "send_email" -> END

\* Faulty variant: a plain edge from find_hotels to find_activities.
NextNode_hotels_unconditional(node, st) ==
    CASE node = "parse_user_prompt" ->
           IF should_continue(st) = "continue_to_next_step"
           THEN "find_flights" ELSE "compile_plan"
      [] node = "find_flights" ->
           IF should_continue(st) = "continue_to_next_step"
           THEN "find_hotels" ELSE "compile_plan"
      [] node = "find_hotels" -> "find_activities"
      [] node = "find_activities" -> "compile_plan"
      [] node = "compile_plan" -> "send_email"
      [] node = "send_email" -> END

\* The edges added to the workflow: the node that follows `node` when the
\* accumulated state is st.
NextNode(node, st) ==
    CASE node = "parse_user_prompt" ->
           IF should_continue(st) = "continue_to_next_step"
           THEN "find_flights" ELSE "compile_plan"
      [] node = "find_flights" ->
           IF should_continue(st) = "continue_to_next_step"
           THEN "find_hotels" ELSE "compile_plan"
      [] node = "find_hotels" ->
           IF should_continue(st) = "continue_to_next_step"
           THEN "find_activities" ELSE "compile_plan"
      [] node = "find_activities" -> "compile_plan"
      [] node = "compile_plan" -> "send_email"
      [] node = "send_email" -> END

\* ------------------------------------------------------------------ stream
StreamMessage(t, c) == [type |-> t, content |-> c]

\* Faulty variant: the first entry of the log is streamed, not the last.
Project_first_entry(node, output) ==
    IF node \in {"parse_user_prompt", "find_flights", "find_hotels", "find_activities"}
    THEN IF "intermediate_steps" \in DOMAIN output /\ output.intermediate_steps /= << >>
         THEN << StreamMessage("log", output.intermediate_steps[1]) >>
         ELSE << >>
    ELSE IF node = "compile_plan"
    THEN IF Truthy(output, "final_plan")
         THEN << StreamMessage(IF ContainsError(output.final_plan)
                               THEN "error" ELSE "result",
                               output.final_plan) >>
         ELSE << >>
    ELSE << >>

\* The body of the loop of run_agent_stream for the on_chain_end event of
\* `node` whose output is `output`: the messages it yields.
Project(node, output) ==
    IF node \in {"parse_user_prompt", "find_flights", "find_hotels", "find_activities"}
    THEN IF "intermediate_steps" \in DOMAIN output /\ output.intermediate_steps /= << >>
         THEN << StreamMessage("log",
                     output.intermediate_steps[Len(output.intermediate_steps)]) >>
         ELSE << >>
    ELSE IF node = "compile_plan"
    THEN IF Truthy(output, "final_plan")
         THEN << StreamMessage(IF ContainsError(output.final_plan)
                               THEN "error" ELSE "result",
                               output.final_plan) >>
         ELSE << >>
    ELSE << >>

\* ------------------------------------------------------------------ inputs
\* The prompts a request can carry (TripRequest.prompt is any string).
Prompts == { << >>, << "Goa", "from", "Mumbai" >> }

\* The values the extracted JSON object can hold under each key.
OriginValues      == {Absent, "", "unknown", "Mumbai"}
DestinationValues == {Absent, "", "unknown", "GOI"}
DateValues        == {Absent, "", "unknown", "01/02/2030"} \cup WellFormedDates
EmailValues       == {Absent, "", None, "not-an-email"} \cup ValidEmails

\* The JSON object with the given values; a key whose value is Absent is
\* left out.
JsonObject(o, d, dep, ret, e) ==
    LET all == [origin |-> o, destination |-> d, departure_date |-> dep,
                return_date |-> ret, user_email |-> e]
    IN  [k \in {key \in DOMAIN all : all[key] /= Absent} |-> all[k]]

\* A well-formed extraction, and the objects that differ from it in one
\* respect: the origin, the destination, the email or the two dates.
BaseOrigin      == "Mumbai"
BaseDestination == "GOI"
BaseDeparture   == "2030-01-03"
BaseReturn      == "2030-01-04"
BaseEmail       == "a@b.co"

JsonObjects ==
    { JsonObject(o, BaseDestination, BaseDeparture, BaseReturn, BaseEmail) :
        o \in OriginValues }
    \cup { JsonObject(BaseOrigin, d, BaseDeparture, BaseReturn, BaseEmail) :
        d \in DestinationValues }
    \cup { JsonObject(BaseOrigin, BaseDestination, BaseDeparture, BaseReturn, e) :
        e \in EmailValues }
    \cup { JsonObject(BaseOrigin, BaseDestination, dep, ret, BaseEmail) :
        dep \in DateValues, ret \in DateValues }

EmptyObject == JsonObject(Absent, Absent, Absent, Absent, Absent)

\* What llm.invoke can do in the parse step.
ParseResponses ==
    { ParseResponse("ok", "json", d, << >>) : d \in JsonObjects }
    \cup { ParseResponse("ok", "wrapped", d, << >>) :
             d \in { JsonObject(BaseOrigin, BaseDestination, BaseDeparture,
                                BaseReturn, BaseEmail) } }
    \cup { ParseResponse("ok", sh, EmptyObject, << >>) : sh \in {"badbraces", "nojson"} }
    \cup { ParseResponse("ok", "nondict", EmptyObject,
                         << "'list'", "object", "has", "no", "attribute", "'get'" >>) }
    \cup { ParseResponse("rate", "nojson", EmptyObject, RateOutcome.text) }
    \cup { ParseResponse("exc", "nojson", EmptyObject, t) : t \in ExcTexts }

\* No call of llm.invoke in the parse step (yet).
NoResponse == ParseResponse("none", "nojson", EmptyObject, << >>)

\* What agent_executor.invoke can do: result.get("output", "") is one of
\* these texts, or the call raises.
AgentTexts == { << "Flight", "6E-204" >>, << "Error:", "no", "availability" >> }
AgentOutcomes ==
    { OkOutcome(t) : t \in AgentTexts } \cup {RateOutcome}
    \cup { ExcOutcome(t) : t \in ExcTexts }

\* What llm.invoke can do in the compile step.
LlmOutcomes ==
    { OkOutcome(t) : t \in PlanTexts } \cup {RateOutcome}
    \cup { ExcOutcome(t) : t \in ExcTexts }

\* What send_email_tool.invoke can do.
EmailOutcomes ==
    { OkOutcome(<< "Email", "with", "the", "trip", "plan", "has", "been",
                   "successfully", "sent" >>),
      OkOutcome(<< "Error:", "Email", "functionality", "is", "disabled" >>),
      ExcOutcome(<< "connection", "reset" >>) }

\* The outcomes of the successive calls one retry_with_backoff can make.
Attempts(outcomes) == [1..DefaultMaxRetries -> outcomes]

\* ------------------------------------------------------------------ machine
VARIABLES
    pc,          \* the node the graph runs next, or END
    state,       \* the accumulated AgentState of the request
    trace,       \* the nodes executed so far, in order
    stream,      \* the StreamMessages run_agent_stream has yielded
    calls,       \* per node, the calls of its external collaborator
    lastUpdate,  \* the update the last executed node returned
    extracted,   \* what llm.invoke did in the parse step
    clock,       \* the instant datetime.now() gives
    retryArgs,   \* the arguments of a direct call of retry_with_backoff
    retryRes,    \* what the latest call of retry_with_backoff gave back
    reqs         \* the requests that run side by side, each with its own run

vars == << pc, state, trace, stream, calls, lastUpdate, extracted, clock,
          retryArgs, retryRes, reqs >>

\* No direct call of retry_with_backoff.
NoRetryArgs == [outs |-> << >>, max_retries |-> 0, initial_delay |-> 0]
NoRetryResult == RetryResult("pending", << >>, 0, << >>)

\* No requests side by side: the one run of pc, state and stream.
NoRequests == << >>

\* run_agent_stream(prompt): initial_state and the entry point of the graph.
Init ==
    /\ pc = "parse_user_prompt"
    /\ \E p \in Prompts : state = [user_prompt |-> p, intermediate_steps |-> << >>]
    /\ trace = << >>
    /\ stream = << >>
    /\ calls = [n \in Nodes |-> 0]
    /\ lastUpdate = << >>
    /\ extracted = NoResponse
    /\ clock \in ClockInstants
    /\ retryArgs = NoRetryArgs
    /\ retryRes = NoRetryResult
    /\ reqs = NoRequests

\* The statements of a node function that stand outside its try block and
\* raise KeyError on the state st: state["parsed_prompt"] (lines 186, 213,
\* 258), state['user_prompt'] (line 293) and state["intermediate_steps"]
\* (line 344).  parse_user_prompt_node has no such statement.
Escapes(node, st) ==
    CASE node \in {"find_flights", "find_hotels", "find_activities"} ->
           "parsed_prompt" \notin DOMAIN st
      [] node = "compile_plan" ->
           ~Truthy(st, "error") /\ "user_prompt" \notin DOMAIN st
      [] node = "send_email" ->
           /\ "error" \notin DOMAIN st
           /\ "parsed_prompt" \in DOMAIN st
           /\ st.parsed_prompt.user_email \in {None, ""}
           /\ "intermediate_steps" \notin DOMAIN st
      [] OTHER -> FALSE

\* str(e) of that KeyError.
KeyErrorText(node) ==
    CASE node \in {"find_flights", "find_hotels", "find_activities"} ->
           << "'parsed_prompt'" >>
      [] node = "compile_plan" -> << "'user_prompt'" >>
      [] OTHER -> << "'intermediate_steps'" >>

\* The graph run has ended with an exception.
RAISED == "__raised__"

\* The fixed beginning of the message of the handler (router.py line 101).
CriticalPrefix == << "A", "critical", "error", "occurred:" >>

\* Faulty variant: the handler swallows the exception without a message.
Raise_silent(node, text) ==
    /\ trace' = Append(trace, node)
    /\ stream' = stream
    /\ pc' = RAISED
    /\ UNCHANGED << state, calls, lastUpdate, clock, retryArgs, retryRes, reqs >>

\* An exception whose str() is `text` leaves the graph run while `node` is
\* running: the except clause of run_agent_stream yields one error message
\* and the generator returns.
Raise(node, text) ==
    /\ trace' = Append(trace, node)
    /\ stream' = Append(stream, StreamMessage("error", CriticalPrefix \o text))
    /\ pc' = RAISED
    /\ UNCHANGED << state, calls, lastUpdate, clock, retryArgs, retryRes, reqs >>

\* The exception escapes `node` and the graph: the handler of
\* run_agent_stream (lines 99-102) yields one error message and the stream
\* ends.
Crash(node) == Raise(node, KeyErrorText(node))

\* The graph runs `node`, which returns `update` after n collaborator calls:
\* the update is merged, the on_chain_end event is projected to the stream
\* and the edge out of the node is followed.
Complete(node, update, n) ==
    /\ state' = Merge(state, update)
    /\ trace' = Append(trace, node)
    /\ stream' = stream \o Project(node, update)
    /\ calls' = [calls EXCEPT ![node] = @ + n]
    /\ lastUpdate' = update
    /\ pc' = NextNode(node, Merge(state, update))
    /\ UNCHANGED << clock, retryArgs, reqs >>

\* One step of the graph at `node`; rr is what retry_with_backoff gave back
\* to the node, NoRetryResult when the node did not call it.
Run(node, update, n, rr) ==
    IF Escapes(node, state)
    THEN Crash(node)
    ELSE Complete(node, update, n) /\ retryRes' = rr

ParseUserPrompt ==
    /\ pc = "parse_user_prompt"
    /\ \E resp \in ParseResponses :
         LET r == parse_user_prompt_node(state, resp, clock) IN
         /\ Run("parse_user_prompt", r.update, r.llm, NoRetryResult)
         /\ extracted' = IF r.llm = 0 THEN NoResponse ELSE resp

FindFlights ==
    /\ pc = "find_flights"
    /\ \E outs \in Attempts(AgentOutcomes) :
         LET r == flight_search_node(state, outs) IN
         /\ Run("find_flights", r.update, r.agent,
                retry_with_backoff(outs, DefaultMaxRetries, DefaultInitialDelay))
         /\ UNCHANGED extracted

FindHotels ==
    /\ pc = "find_hotels"
    /\ \E outs \in Attempts(AgentOutcomes) :
         LET r == hotel_search_node(state, outs) IN
         /\ Run("find_hotels", r.update, r.agent,
                retry_with_backoff(outs, DefaultMaxRetries, DefaultInitialDelay))
         /\ UNCHANGED extracted

FindActivities ==
    /\ pc = "find_activities"
    /\ \E outs \in Attempts(AgentOutcomes) :
         LET r == activities_search_node(state, outs) IN
         /\ Run("find_activities", r.update, r.agent,
                retry_with_backoff(outs, DefaultMaxRetries, DefaultInitialDelay))
         /\ UNCHANGED extracted

CompilePlan ==
    /\ pc = "compile_plan"
    /\ \E outs \in Attempts(LlmOutcomes) :
         LET r == compile_plan_node(state, outs) IN
         /\ Run("compile_plan", r.update, r.llm,
                IF r.llm = 0 THEN NoRetryResult
                ELSE retry_with_backoff(outs, DefaultMaxRetries, DefaultInitialDelay))
         /\ UNCHANGED extracted

SendEmail ==
    /\ pc = "send_email"
    /\ \E out \in EmailOutcomes :
         LET r == send_email_node(state, out) IN
         /\ Run("send_email", r.update, r.email, NoRetryResult)
         /\ UNCHANGED extracted

Next ==
    \/ ParseUserPrompt
    \/ FindFlights
    \/ FindHotels
    \/ FindActivities
    \/ CompilePlan
    \/ SendEmail

Spec == Init /\ [][Next]_vars

\* ------------------------------------------------------------------ faults
\* The graph run itself raises while a node is due (astream_events is inside
\* the try of run_agent_stream): any exception, at any node.
GraphFault ==
    /\ pc \in Nodes
    /\ \E text \in ExcTexts : Raise(pc, text)
    /\ UNCHANGED extracted

FaultNext == Next \/ GraphFault

SpecFault == Init /\ [][FaultNext]_vars

\* Every external call returns or raises in the end, and the graph runtime
\* runs the node that is due: a step that can be taken is taken.
SpecFair == Spec /\ WF_vars(Next)

\* ------------------------------------------------------------------ two requests
\* Two calls of run_agent_stream whose graph runs interleave node by node.
Requests == {1, 2}

\* run_agent_stream(prompt), lines 71-72: a new initial_state per call.
NewRequest(p) ==
    [prompt |-> p, inputs |-> << >>, pc |-> "parse_user_prompt",
     state |-> [user_prompt |-> p, intermediate_steps |-> << >>],
     stream |-> << >>]

\* What the collaborators can answer to the calls of one node: a response of
\* llm.invoke for parse, the outcomes of the successive attempts for the
\* search nodes and compile (the same outcome at every attempt), an outcome
\* of the sender for send_email.
Inputs(node) ==
    CASE node = "parse_user_prompt" ->
           { r \in ParseResponses :
               /\ r.kind = "ok" /\ r.shape = "json"
               /\ r.data \in { JsonObject(o, BaseDestination, BaseDeparture,
                                          BaseReturn, BaseEmail) :
                                 o \in {Absent, BaseOrigin} } }
      [] node \in {"find_flights", "find_hotels", "find_activities"} ->
           { outs \in Attempts(AgentOutcomes) :
               outs[1].kind \in {"ok", "rate"} /\ \A k \in DOMAIN outs : outs[k] = outs[1] }
      [] node = "compile_plan" ->
           { outs \in Attempts(LlmOutcomes) :
               outs[1].kind \in {"ok", "rate"} /\ outs[1].text /= << >>
               /\ \A k \in DOMAIN outs : outs[k] = outs[1] }
      [] OTHER -> EmailOutcomes

\* The dict the node function returns for the state st it is called with.
NodeUpdate(node, st, inp, clk) ==
    CASE node = "parse_user_prompt" -> parse_user_prompt_node(st, inp, clk).update
      [] node = "find_flights"      -> flight_search_node(st, inp).update
      [] node = "find_hotels"       -> hotel_search_node(st, inp).update
      [] node = "find_activities"   -> activities_search_node(st, inp).update
      [] node = "compile_plan"      -> compile_plan_node(st, inp).update
      [] OTHER                      -> send_email_node(st, inp).update

\* One node of the run r, called with the state st: what Run does to pc,
\* state and stream, with the answers of the collaborators kept in inputs.
Advance(r, st, inp, clk) ==
    IF Escapes(r.pc, st)
    THEN [r EXCEPT !.inputs = Append(@, inp),
                   !.pc = RAISED,
                   !.stream = Append(@, StreamMessage("error",
                                  CriticalPrefix \o KeyErrorText(r.pc)))]
    ELSE LET update == NodeUpdate(r.pc, st, inp, clk) IN
         [r EXCEPT !.inputs = Append(@, inp),
                   !.pc = NextNode(r.pc, Merge(r.state, update)),
                   !.state = Merge(@, update),
                   !.stream = @ \o Project(r.pc, update)]

\* Faulty variant: one log list at module level, which every request's nodes
\* read.
NodeInput_shared_log(rs, i) ==
    [rs[i].state EXCEPT !.intermediate_steps = rs[1].state.intermediate_steps]

\* The state a node of request i is called with: that of its own graph run
\* (the graph is compiled without a checkpointer, the node functions use
\* their argument only and the module-level llm and agent_executor keep no
\* memory).
NodeInput(rs, i) == rs[i].state

TwoInit ==
    /\ pc = "concurrent"
    /\ state = [user_prompt |-> << >>, intermediate_steps |-> << >>]
    /\ trace = << >>
    /\ stream = << >>
    /\ calls = [n \in Nodes |-> 0]
    /\ lastUpdate = << >>
    /\ extracted = NoResponse
    /\ clock \in ClockInstants
    /\ retryArgs = NoRetryArgs
    /\ retryRes = NoRetryResult
    /\ reqs \in [Requests -> { NewRequest(p) : p \in Prompts }]

\* Request i runs the node that is due in it.
RequestStep(i) ==
    /\ pc = "concurrent"
    /\ reqs[i].pc \in Nodes
    /\ \E inp \in Inputs(reqs[i].pc) :
          reqs' = [reqs EXCEPT ![i] = Advance(reqs[i], NodeInput(reqs, i), inp, clock)]
    /\ UNCHANGED << pc, state, trace, stream, calls, lastUpdate, extracted, clock,
                    retryArgs, retryRes >>

TwoNext == \E i \in Requests : RequestStep(i)

SpecTwo == TwoInit /\ [][TwoNext]_vars

\* ------------------------------------------------------------------ retry alone
\* retry_with_backoff called on its own, for every max_retries and
\* initial_delay up to the bounds and every sequence of outcomes of func.
MaxRetriesBound == 4
MaxInitialDelay == 2

RetryOutcomes ==
    { OkOutcome(<< "done" >>), RateOutcome, ExcOutcome(<< "connection", "reset" >>) }

RetryInit ==
    /\ pc = "retry_with_backoff"
    /\ state = [user_prompt |-> << >>, intermediate_steps |-> << >>]
    /\ trace = << >>
    /\ stream = << >>
    /\ calls = [n \in Nodes |-> 0]
    /\ lastUpdate = << >>
    /\ extracted = NoResponse
    /\ clock \in ClockInstants
    /\ \E m \in 0..MaxRetriesBound, d \in 1..MaxInitialDelay :
         \E outs \in [1..m -> RetryOutcomes] :
            retryArgs = [outs |-> outs, max_retries |-> m, initial_delay |-> d]
    /\ retryRes = NoRetryResult
    /\ reqs = NoRequests

RetryCall ==
    /\ pc = "retry_with_backoff"
    /\ retryRes' = retry_with_backoff(retryArgs.outs, retryArgs.max_retries,
                                      retryArgs.initial_delay)
    /\ pc' = "returned"
    /\ UNCHANGED << state, trace, stream, calls, lastUpdate, extracted, clock,
                    retryArgs, reqs >>

RetryNext == RetryCall

SpecRetry == RetryInit /\ [][RetryNext]_vars

TypeOK ==
    /\ pc \in Nodes \cup {END, RAISED}
    /\ "user_prompt" \in DOMAIN state

\* ------------------------------------------------------------------ properties
Last(seq) == seq[Len(seq)]

IsPrefix(a, b) ==
    Len(a) <= Len(b) /\ \A i \in 1..Len(a) : a[i] = b[i]

InTrace(node) == \E i \in 1..Len(trace) : trace[i] = node

StreamTypes == [i \in 1..Len(stream) |-> stream[i].type]

AgentCalls ==
    calls["find_flights"] + calls["find_hotels"] + calls["find_activities"]

\* The four complete runs of the graph.
FullRuns ==
    { << "parse_user_prompt", "compile_plan", "send_email" >>,
      << "parse_user_prompt", "find_flights", "compile_plan", "send_email" >>,
      << "parse_user_prompt", "find_flights", "find_hotels", "compile_plan",
         "send_email" >>,
      << "parse_user_prompt", "find_flights", "find_hotels", "find_activities",
         "compile_plan", "send_email" >> }

\* compile has run.
Compiled == pc \in {"send_email", END}

\* C1: the executed nodes, followed by the node to run next, are always the
\* beginning of one of the four complete runs, and a finished run is one of
\* them; after parse, find_flights and find_hotels the next node is compile
\* iff the error of the accumulated state is set, after find_activities it is
\* compile in any case.
C1_NodeOrder ==
    /\ IF pc = END
       THEN trace \in FullRuns
       ELSE \E full \in FullRuns : IsPrefix(Append(trace, pc), full)
    /\ (trace /= << >> /\ Last(trace) \in {"parse_user_prompt", "find_flights",
                                           "find_hotels"})
         => /\ (pc = "compile_plan") <=> Truthy(state, "error")
            /\ pc /= "compile_plan" =>
                 pc = (CASE Last(trace) = "parse_user_prompt" -> "find_flights"
                         [] Last(trace) = "find_flights" -> "find_hotels"
                         [] Last(trace) = "find_hotels" -> "find_activities")
    /\ (trace /= << >> /\ Last(trace) = "find_activities") => pc = "compile_plan"

\* A finished run that left the chain after a failed flight search.
C1_Witness ==
    /\ pc = END
    /\ trace = << "parse_user_prompt", "find_flights", "compile_plan", "send_email" >>
    /\ Truthy(state, "error")

\* C2: once the error field is non-empty, every later step leaves it
\* non-empty with the same value.
C2_ErrorKept ==
    [][Truthy(state, "error") =>
         (Truthy(state', "error") /\ state'.error = state.error)]_vars

\* A run that recorded an error and went through compile and send_email.
C2_Witness == pc = END /\ Truthy(state, "error")

\* C3: whenever the error field is set when compile runs, the message
\* streamed for compile has type error.
C3_ErrorStreamedAsError ==
    (Compiled /\ Truthy(state, "error"))
        => /\ stream /= << >>
           /\ Last(stream).content = state.final_plan
           /\ Last(stream).type = "error"

\* C4: once compile has run the stream ends with exactly one message of type
\* result or error whose content is final_plan.
C4_CompileMessage ==
    Compiled
        => /\ stream /= << >>
           /\ Last(stream).type \in {"result", "error"}
           /\ Last(stream).content = state.final_plan
           /\ \A i \in 1..(Len(stream) - 1) : stream[i].type = "log"

\* C5: a finished run in which no step recorded an error streamed one or
\* more log messages and then exactly one result message.
C5_LogsThenResult ==
    (pc = END /\ "error" \notin DOMAIN state)
        => /\ Len(stream) >= 2
           /\ Last(stream).type = "result"
           /\ \A i \in 1..(Len(stream) - 1) : stream[i].type = "log"

\* C6: a finished run in which parse and find_flights succeeded and
\* find_hotels failed streamed exactly log, log, error.
C6_HotelFailureStream ==
    (pc = END /\ trace = << "parse_user_prompt", "find_flights", "find_hotels",
                            "compile_plan", "send_email" >>)
        => StreamTypes = << "log", "log", "error" >>

\* The extraction gave all required fields with well-formed dates and a
\* departure day before the day of the clock.
PastDeparture ==
    /\ extracted.kind = "ok" /\ extracted.shape \in {"json", "wrapped"}
    /\ MissingFields(extracted.data) = << >>
    /\ extracted.data["departure_date"] \in WellFormedDates
    /\ extracted.data["return_date"] \in WellFormedDates
    /\ DayNumber(extracted.data["departure_date"]) < Today

DepartureFutureText ==
    << "Departure", "date", "must", "be", "in", "the", "future." >>

\* C7: when the parsed departure date is in the past, parse records the
\* error that the departure date must be in the future, no search step runs,
\* the agent is never called, and the final message has type error and
\* contains that phrase.
C7_PastDepartureStream ==
    PastDeparture
        => /\ Truthy(state, "error") /\ state.error = DepartureFutureText
           /\ ~InTrace("find_flights") /\ ~InTrace("find_hotels")
           /\ ~InTrace("find_activities")
           /\ AgentCalls = 0
           /\ pc = END =>
                /\ stream /= << >>
                /\ Last(stream).type = "error"
                /\ Contains(Last(stream).content, DepartureFutureText)

\* find_flights ran and recorded the agent's own output as the error.
FlightOutputError ==
    /\ Len(trace) >= 2 /\ trace[2] = "find_flights"
    /\ "flight_info" \notin DOMAIN state
    /\ Truthy(state, "error")
    /\ state.error \in AgentTexts

\* C8: when the output of the flight search contains "error", the routing
\* after find_flights takes the error branch, find_hotels and
\* find_activities never run, and the final message has type error.
C8_FlightErrorRoute ==
    FlightOutputError
        => /\ ContainsError(state.error)
           /\ Len(trace) = 2 => pc = "compile_plan"
           /\ ~InTrace("find_hotels") /\ ~InTrace("find_activities")
           /\ pc \notin {"find_hotels", "find_activities"}
           /\ Compiled => (stream /= << >> /\ Last(stream).type = "error")

C8_Witness ==
    /\ pc = END
    /\ FlightOutputError
    /\ state.error = << "Error:", "no", "availability" >>

\* C9: when compile has run on a state whose error is set, it made no call
\* of the text-completion service and final_plan is non-empty and contains
\* the recorded error text.
C9_CompileOnError ==
    (Compiled /\ Truthy(state, "error"))
        => /\ calls["compile_plan"] = 0
           /\ Truthy(state, "final_plan")
           /\ Contains(state.final_plan, state.error)

C9_Witness ==
    /\ pc = "send_email"
    /\ Truthy(state, "error")
    /\ lastUpdate = [final_plan |-> ApologyPrefix \o state.error]

\* C10: the update compile returns names final_plan and nothing else, so it
\* never sets error; final_plan appears in the state only by the compile
\* step and no later step changes it.
C10_FinalPlanOnce ==
    [][/\ pc = "compile_plan" => DOMAIN lastUpdate' = {"final_plan"}
       /\ "final_plan" \in DOMAIN state =>
            ("final_plan" \in DOMAIN state' /\ state'.final_plan = state.final_plan)
       /\ ("final_plan" \notin DOMAIN state /\ "final_plan" \in DOMAIN state')
            => pc = "compile_plan"
       /\ pc = "compile_plan" => "final_plan" \notin DOMAIN state]_vars

\* A finished run whose compile step met a rate limit on every attempt.
C10_Witness ==
    /\ pc = END
    /\ calls["compile_plan"] = DefaultMaxRetries
    /\ "error" \notin DOMAIN state
    /\ state.final_plan =
         << "I", "apologize,", "but", "I'm", "currently", "experiencing",
            "high", "demand.", "Please", "try", "again", "in", "a",
            "few", "minutes." >>

\* ------------------------------------------------------------------ retry properties
\* The number of rate-limit failures func makes before its first other
\* outcome (or before the outcomes run out).
RECURSIVE RateFailures(_)
RateFailures(outs) ==
    IF Len(outs) = 0 \/ outs[1].kind /= "rate" THEN 0
    ELSE 1 + RateFailures(Tail(outs))

Returned == pc = "returned"

\* C11: for max_retries >= 1 and k < max_retries, when func fails k times
\* with a rate-limit error and then succeeds, retry_with_backoff returns the
\* success value after k+1 invocations and k sleeps of initial_delay*2^0,
\* ..., initial_delay*2^(k-1), in that order.
C11_RetryThenSuccess ==
    LET k == RateFailures(retryArgs.outs) IN
    (/\ Returned
     /\ retryArgs.max_retries >= 1
     /\ k < retryArgs.max_retries
     /\ retryArgs.outs[k + 1].kind = "ok")
        => /\ retryRes.kind = "return"
           /\ retryRes.value = retryArgs.outs[k + 1].text
           /\ retryRes.invocations = k + 1
           /\ retryRes.sleeps = [i \in 1..k |-> retryArgs.initial_delay * 2^(i - 1)]

\* Three rate-limit failures, then success.
C11_Witness ==
    /\ Returned
    /\ RateFailures(retryArgs.outs) = 3
    /\ retryArgs.max_retries = 4
    /\ retryArgs.initial_delay = 2
    /\ retryRes.kind = "return"
    /\ retryRes.sleeps = << 2, 4, 8 >>

\* C12: for max_retries >= 1, when func always fails with a rate-limit
\* error, retry_with_backoff raises that error after exactly max_retries
\* invocations and max_retries - 1 sleeps, and returns no value.
C12_RetryExhausted ==
    (/\ Returned
     /\ retryArgs.max_retries >= 1
     /\ RateFailures(retryArgs.outs) = retryArgs.max_retries)
        => /\ retryRes.kind = "raise_rate"
           /\ retryRes.value = RateOutcome.text
           /\ retryRes.invocations = retryArgs.max_retries
           /\ Len(retryRes.sleeps) = retryArgs.max_retries - 1

C12_Witness ==
    /\ Returned
    /\ retryArgs.max_retries = 3
    /\ RateFailures(retryArgs.outs) = 3
    /\ retryRes.kind = "raise_rate"
    /\ retryRes.sleeps = << 1, 2 >>

\* C13: when func raises an error that is not a rate-limit error on some
\* attempt, retry_with_backoff propagates it at once: func is not invoked
\* again and no sleep follows that failure.
C13_OtherErrorPropagates ==
    LET k == RateFailures(retryArgs.outs) IN
    (/\ Returned
     /\ k < retryArgs.max_retries
     /\ retryArgs.outs[k + 1].kind = "exc")
        => /\ retryRes.kind = "raise_exc"
           /\ retryRes.value = retryArgs.outs[k + 1].text
           /\ retryRes.invocations = k + 1
           /\ Len(retryRes.sleeps) = k

\* One rate-limit failure, then another exception with attempts left.
C13_Witness ==
    /\ Returned
    /\ retryArgs.max_retries = 4
    /\ RateFailures(retryArgs.outs) = 1
    /\ retryArgs.outs[2].kind = "exc"
    /\ retryRes.kind = "raise_exc"
    /\ retryRes.invocations = 2

\* ------------------------------------------------------------------ step properties
\* The keys of AgentState.
StateKeys == {"user_prompt", "parsed_prompt", "flight_info", "hotel_info",
              "activity_info", "final_plan", "error", "intermediate_steps"}

\* The key under which a node hands over its result.
ResultKey(node) ==
    CASE node = "parse_user_prompt" -> "parsed_prompt"
      [] node = "find_flights"      -> "flight_info"
      [] node = "find_hotels"       -> "hotel_info"
      [] node = "find_activities"   -> "activity_info"
      [] node = "compile_plan"      -> "final_plan"
      [] node = "send_email"        -> "intermediate_steps"

\* C14: no exception escapes a step: the graph run never ends with an
\* exception, no node is entered with a state on which its statements outside
\* the try block raise, and every executed node has returned a partial update
\* that holds either its result or, for parse and the search steps, a
\* non-empty error.
C14_NoEscape ==
    /\ pc /= RAISED
    /\ pc \in Nodes => ~Escapes(pc, state)
    /\ trace /= << >> =>
         /\ DOMAIN lastUpdate /= {}
         /\ DOMAIN lastUpdate \subseteq StateKeys
         /\ \/ ResultKey(Last(trace)) \in DOMAIN lastUpdate
            \/ /\ Last(trace) \notin {"compile_plan", "send_email"}
               /\ Truthy(lastUpdate, "error")

\* The agent raised an exception other than a rate limit in find_activities
\* and the run went on to its end.
C14_Witness ==
    /\ pc = END
    /\ InTrace("find_activities")
    /\ Truthy(state, "error")
    /\ state.error = << "An", "unexpected", "error", "occurred", "while",
                         "researching", "activities." >>

\* C15: the update of send_email names only the log, which it extends by
\* exactly one entry; it leaves error and final_plan as they were and
\* streams nothing, whatever the sender does.
C15_SendEmailFrame ==
    [][pc = "send_email" =>
         /\ DOMAIN lastUpdate' = {"intermediate_steps"}
         /\ lastUpdate'.intermediate_steps = state'.intermediate_steps
         /\ Len(state'.intermediate_steps) = Len(state.intermediate_steps) + 1
         /\ IsPrefix(state.intermediate_steps, state'.intermediate_steps)
         /\ ("error" \in DOMAIN state') = ("error" \in DOMAIN state)
         /\ "final_plan" \in DOMAIN state'
         /\ state'.final_plan = state.final_plan
         /\ stream' = stream]_vars

\* The sender reported a failure and the compiled plan is still the plan.
C15_Witness ==
    /\ pc = END
    /\ calls["send_email"] = 1
    /\ Last(state.intermediate_steps) = << "[x]", "Failed", "to", "send", "email." >>
    /\ "error" \notin DOMAIN state
    /\ state.final_plan = << "Have", "a", "wonderful", "trip!" >>

\* The state has no error, a parsed request and an email address in it.
SenderCondition(st) ==
    /\ "error" \notin DOMAIN st
    /\ "parsed_prompt" \in DOMAIN st
    /\ st.parsed_prompt.user_email \notin {None, ""}

\* C16: the email sender is called at most once in a run, only by
\* send_email, only when the state has no error, a parsed request and an
\* email address, and only with final_plan set; in every other finished run
\* it was not called and send_email returned only the log.
C16_SenderGuard ==
    /\ calls["send_email"] <= 1
    /\ calls["send_email"] = 1 =>
         /\ pc = END
         /\ SenderCondition(state)
         /\ "final_plan" \in DOMAIN state
    /\ (pc = END /\ ~SenderCondition(state)) =>
         /\ calls["send_email"] = 0
         /\ DOMAIN lastUpdate = {"intermediate_steps"}
         /\ Len(state.intermediate_steps) >= 1

\* The plan was delivered.
C16_Witness ==
    /\ pc = END
    /\ calls["send_email"] = 1
    /\ Last(state.intermediate_steps) =
         << "[mail]", "Trip", "plan", "sent", "to", "your", "email." >>

\* C17: every step leaves the accumulated log as a prefix of the new one
\* and makes it longer by at most one entry.
C17_LogAppendOnly ==
    [][/\ IsPrefix(GetSteps(state), GetSteps(state'))
       /\ Len(GetSteps(state')) <= Len(GetSteps(state)) + 1]_vars

\* A finished run in which every step logged one entry.
C17_Witness ==
    /\ pc = END
    /\ Len(trace) = 6
    /\ Len(state.intermediate_steps) = 5
    /\ state.intermediate_steps[2] =
         << "[flight]", "Searched", "for", "flight", "options." >>

\* ------------------------------------------------------------------ parse properties
RequiredKeys == {"origin", "destination", "departure_date", "return_date"}

\* The name by which the error text calls a required key.
FieldName(key) ==
    CASE key = "origin"         -> "origin"
      [] key = "destination"    -> "destination"
      [] key = "departure_date" -> "departure date"
      [] key = "return_date"    -> "return date"

\* parse has run and json.loads gave an object.
Extracted ==
    /\ pc /= "parse_user_prompt"
    /\ extracted.kind = "ok"
    /\ extracted.shape \in {"json", "wrapped"}

\* No search step has run or is about to run.
NoSearch ==
    /\ ~InTrace("find_flights") /\ ~InTrace("find_hotels")
    /\ ~InTrace("find_activities")
    /\ pc \notin {"find_flights", "find_hotels", "find_activities"}

\* The extracted object has all required fields, dates that parse, a
\* departure that is not before the clock and a return after the departure.
ValidRequiredAndDates ==
    /\ Extracted
    /\ \A key \in RequiredKeys :
         DataGet(extracted.data, key, Absent) \notin {Absent, None, ""}
    /\ extracted.data["departure_date"] \in WellFormedDates
    /\ extracted.data["return_date"] \in WellFormedDates
    /\ DayNumber(extracted.data["departure_date"]) * TicksPerDay >= clock
    /\ DayNumber(extracted.data["return_date"])
         > DayNumber(extracted.data["departure_date"])

\* C18: with non-empty origin and destination and valid dates, parse
\* succeeds whether the email key is absent, empty, null or a valid address.
C18_EmailOptional ==
    (/\ ValidRequiredAndDates
     /\ DataGet(extracted.data, "user_email", Absent)
          \in {Absent, "", None} \cup ValidEmails)
        => /\ "parsed_prompt" \in DOMAIN state
           /\ "error" \notin DOMAIN state

\* C19 as stated: whenever a required field is missing, empty or "unknown",
\* parse records an error that names every such field and sets no parsed
\* request, and the run goes to compile without a search step.
C19_UnknownRejected ==
    LET bad == { key \in RequiredKeys :
                   DataGet(extracted.data, key, Absent)
                      \in {Absent, None, "", "unknown"} }
    IN (Extracted /\ bad /= {})
          => /\ Truthy(state, "error")
             /\ \A key \in bad : \E i \in 1..Len(state.error) :
                                   state.error[i] = FieldName(key)
             /\ "parsed_prompt" \notin DOMAIN state
             /\ NoSearch

\* C19 amended: whenever a required field is missing, null or empty, parse
\* records the error "Missing required information: ..." that names every
\* such field and sets no parsed request, and the run goes to compile
\* without a search step.
C19_MissingRejected ==
    LET bad == { key \in RequiredKeys :
                   DataGet(extracted.data, key, Absent) \in {Absent, None, ""} }
    IN (Extracted /\ bad /= {})
          => /\ Truthy(state, "error")
             /\ IsPrefix(<< "Missing", "required", "information:" >>, state.error)
             /\ \A key \in bad : \E i \in 1..Len(state.error) :
                                   state.error[i] = FieldName(key)
             /\ "parsed_prompt" \notin DOMAIN state
             /\ NoSearch
             /\ trace /= << >> /\ (Len(trace) = 1 => pc = "compile_plan")

\* A finished run whose extraction had an empty departure date and no return
\* date.
C19_Witness ==
    /\ pc = END
    /\ Extracted
    /\ DataGet(extracted.data, "departure_date", Absent) = ""
    /\ "return_date" \notin DOMAIN extracted.data
    /\ trace = << "parse_user_prompt", "compile_plan", "send_email" >>
    /\ Contains(state.error, << "departure date", ",", "return date" >>)

\* The three errors of the date validation.
DateErrors ==
    { << "Invalid", "date", "format:" >> \o ValueErrorText
         \o << ".", "Please", "use", "YYYY-MM-DD", "format." >>,
      << "Departure", "date", "must", "be", "in", "the", "future." >>,
      << "Return", "date", "must", "be", "after", "departure", "date." >> }

\* C20: a parsed request exists only if both extracted dates parse, the
\* departure day is not before the day of the clock and the return day is
\* after the departure day, and it stores the extracted date strings as they
\* are; an extraction with all fields whose dates break one of these rules
\* gives one of the date errors and no parsed request.
C20_DatesValidated ==
    /\ "parsed_prompt" \in DOMAIN state =>
         /\ Extracted
         /\ extracted.data["departure_date"] \in WellFormedDates
         /\ extracted.data["return_date"] \in WellFormedDates
         /\ DayNumber(extracted.data["departure_date"]) >= Today
         /\ DayNumber(extracted.data["return_date"])
              > DayNumber(extracted.data["departure_date"])
         /\ state.parsed_prompt.departure_date = extracted.data["departure_date"]
         /\ state.parsed_prompt.return_date = extracted.data["return_date"]
    /\ (/\ Extracted
        /\ MissingFields(extracted.data) = << >>
        /\ IF /\ extracted.data["departure_date"] \in WellFormedDates
              /\ extracted.data["return_date"] \in WellFormedDates
           THEN \/ DayNumber(extracted.data["departure_date"]) < Today
                \/ DayNumber(extracted.data["return_date"])
                     <= DayNumber(extracted.data["departure_date"])
           ELSE TRUE)
         => /\ Truthy(state, "error")
            /\ state.error \in DateErrors
            /\ "parsed_prompt" \notin DOMAIN state

\* A return on the day of departure was rejected.
C20_Witness ==
    /\ Extracted
    /\ MissingFields(extracted.data) = << >>
    /\ extracted.data["departure_date"] = "2030-01-03"
    /\ extracted.data["return_date"] = "2030-01-03"
    /\ Truthy(state, "error")
    /\ state.error = << "Return", "date", "must", "be", "after", "departure", "date." >>

\* The update appends exactly one entry to the log the node received.
AppendsOneEntry(update, st) ==
    /\ "intermediate_steps" \in DOMAIN update
    /\ Len(update.intermediate_steps) = Len(GetSteps(st)) + 1
    /\ IsPrefix(GetSteps(st), update.intermediate_steps)

\* The info field of a search node.
InfoKey(node) ==
    CASE node = "find_flights" -> "flight_info"
      [] node = "find_hotels" -> "hotel_info"
      [] OTHER -> "activity_info"

\* C23: in a step of find_flights or find_hotels, if the agent returned a
\* text that contains "error" (any letter case) the update is exactly
\* {error: that whole text}, with no info field and no log entry; if it
\* returned any other text the update is exactly the info field with that
\* text and the log with one entry appended, and error is not in it; if the
\* retries ran out or another exception was raised the update is exactly
\* {error: a non-empty message}.
C23_Step ==
    (pc \in {"find_flights", "find_hotels"} /\ pc' /= RAISED) =>
        LET u == lastUpdate'
            r == retryRes'
        IN  CASE r.kind = "return" /\ ContainsError(r.value) ->
                   u = [error |-> r.value]
              [] r.kind = "return" /\ ~ContainsError(r.value) ->
                   /\ DOMAIN u = {InfoKey(pc), "intermediate_steps"}
                   /\ u[InfoKey(pc)] = r.value
                   /\ AppendsOneEntry(u, state)
              [] OTHER ->
                   /\ r.kind \in {"raise_rate", "raise_exc"}
                   /\ DOMAIN u = {"error"}
                   /\ u.error /= << >>

C23_SearchUpdateShape == [][C23_Step]_vars

\* find_hotels has got an output with "Error:" from the agent and has
\* recorded the whole of it as the error.
C23_Witness ==
    /\ trace /= << >>
    /\ Last(trace) = "find_hotels"
    /\ retryRes.kind = "return"
    /\ ContainsError(retryRes.value)
    /\ lastUpdate = [error |-> retryRes.value]
    /\ "flight_info" \in DOMAIN state

\* C24: in a step of find_activities, any text the agent returns, with or
\* without "error" in it, becomes activity_info, one log entry is appended,
\* error stays unset and compile comes next; only an exception from the agent
\* call gives an update with error.  A compile step that finds activity_info
\* set calls the text-completion service and its plan is not the apology.
C24_Step ==
    /\ (pc = "find_activities" /\ pc' /= RAISED) =>
          LET u == lastUpdate'
              r == retryRes'
          IN  IF r.kind = "return"
              THEN /\ DOMAIN u = {"activity_info", "intermediate_steps"}
                   /\ u.activity_info = r.value
                   /\ AppendsOneEntry(u, state)
                   /\ "error" \notin DOMAIN state'
                   /\ pc' = "compile_plan"
              ELSE /\ r.kind \in {"raise_rate", "raise_exc"}
                   /\ DOMAIN u = {"error"}
                   /\ u.error /= << >>
    /\ (pc = "compile_plan" /\ "activity_info" \in DOMAIN state /\ pc' /= RAISED) =>
          /\ calls'["compile_plan"] >= 1
          /\ retryRes' /= NoRetryResult
          /\ ~IsPrefix(ApologyPrefix, state'.final_plan)

C24_ActivityAcceptsAnyText == [][C24_Step]_vars

\* The agent's answer to the activity search contained "Error:", it was kept
\* as activity_info and compile has called the text-completion service.
C24_Witness ==
    /\ Compiled
    /\ "activity_info" \in DOMAIN state
    /\ ContainsError(state.activity_info)
    /\ "error" \notin DOMAIN state
    /\ calls["compile_plan"] >= 1

\* The contents of the log-type messages of the stream, in order.
RECURSIVE LogContents(_)
LogContents(msgs) ==
    IF msgs = << >> THEN << >>
    ELSE IF msgs[1].type = "log"
         THEN << msgs[1].content >> \o LogContents(Tail(msgs))
         ELSE LogContents(Tail(msgs))

\* C25: a step of parse, find_flights, find_hotels or find_activities whose
\* update carries a log adds exactly one message to the stream, of type log,
\* with the entry this step appended to the log (the last one of the new
\* log); a step of these nodes whose update carries no log adds nothing; a
\* step of send_email adds nothing; no step removes or reorders messages.
C25_Step ==
    /\ IsPrefix(stream, stream')
    /\ (pc \in {"parse_user_prompt", "find_flights", "find_hotels",
                "find_activities"} /\ pc' /= RAISED) =>
          IF "intermediate_steps" \in DOMAIN lastUpdate'
          THEN /\ AppendsOneEntry(lastUpdate', state)
               /\ stream' = Append(stream,
                      StreamMessage("log", Last(state'.intermediate_steps)))
          ELSE stream' = stream
    /\ (pc = "send_email" /\ pc' /= RAISED) => stream' = stream
    /\ (pc = "compile_plan" /\ pc' /= RAISED) =>
          LogContents(stream') = LogContents(stream)

C25_LogMessages == [][C25_Step]_vars

\* find_hotels has streamed its own entry after those of parse and
\* find_flights, and a later failure of find_activities has streamed nothing.
C25_Witness ==
    /\ trace = << "parse_user_prompt", "find_flights", "find_hotels",
                  "find_activities" >>
    /\ "error" \in DOMAIN state
    /\ Len(stream) = 3
    /\ stream[3] = StreamMessage("log",
           << "[hotel]", "Searched", "for", "accommodation", "options." >>)

\* C26: a step in which an exception leaves the graph run adds exactly one
\* message to the stream, of type error, whose content begins with
\* "A critical error occurred:", and keeps the earlier messages in order;
\* after it no step is taken, so no message follows.
C26_Step ==
    /\ pc /= RAISED
    /\ pc' = RAISED =>
          /\ Len(stream') = Len(stream) + 1
          /\ IsPrefix(stream, stream')
          /\ Last(stream').type = "error"
          /\ IsPrefix(CriticalPrefix, Last(stream').content)

C26_CriticalError == [][C26_Step]_vars

\* The run was cut short in find_hotels after two log messages; the error
\* message is the third and last.
C26_Witness ==
    /\ pc = RAISED
    /\ trace = << "parse_user_prompt", "find_flights", "find_hotels" >>
    /\ Len(stream) = 3
    /\ stream[1].type = "log" /\ stream[2].type = "log"
    /\ stream[3] = StreamMessage("error", CriticalPrefix \o << "connection", "reset" >>)

\* The bounds on the external calls of one run.
CallBounds ==
    /\ \A n \in {"find_flights", "find_hotels", "find_activities"} :
          IF InTrace(n) THEN calls[n] \in 1..3 ELSE calls[n] = 0
    /\ calls["compile_plan"] <= 3
    /\ calls["parse_user_prompt"] <= 1
    /\ calls["send_email"] <= 1

\* C27: every run reaches the terminal marker, which it enters from
\* send_email; at every moment each search node that has run has called the
\* agent between 1 and 3 times, compile has called the text-completion
\* service at most 3 times, parse at most once and send_email the sender at
\* most once.
C27_TerminatesBounded ==
    /\ <>(pc = END /\ Last(trace) = "send_email")
    /\ [](CallBounds)

\* A finished run in which find_flights needed all three attempts and compile
\* all three as well.
C27_Witness ==
    /\ pc = END
    /\ calls["find_flights"] = 3
    /\ calls["compile_plan"] = 3
    /\ calls["parse_user_prompt"] = 1

\* The only node that writes a field.
Writer(key) ==
    CASE key = "parsed_prompt" -> "parse_user_prompt"
      [] key = "flight_info"   -> "find_flights"
      [] key = "hotel_info"    -> "find_hotels"
      [] key = "activity_info" -> "find_activities"
      [] key = "final_plan"    -> "compile_plan"

\* The field is not the same before and after the step.
Changed(key) ==
    \/ (key \in DOMAIN state) /= (key \in DOMAIN state')
    \/ key \in DOMAIN state /\ key \in DOMAIN state' /\ state[key] /= state'[key]

\* C28: in every step the fields that change are fields of the step's
\* update and take the value the update gives; no field is removed;
\* user_prompt is in no update and keeps its value; parsed_prompt,
\* flight_info, hotel_info, activity_info and final_plan are in the update
\* of their own node only.
C28_Step ==
    pc' /= RAISED =>
        /\ DOMAIN state \subseteq DOMAIN state'
        /\ \A key \in StateKeys :
              Changed(key) =>
                 /\ key \in DOMAIN lastUpdate'
                 /\ state'[key] = lastUpdate'[key]
        /\ "user_prompt" \notin DOMAIN lastUpdate'
        /\ state'.user_prompt = state.user_prompt
        /\ \A key \in {"parsed_prompt", "flight_info", "hotel_info",
                       "activity_info", "final_plan"} :
              key \in DOMAIN lastUpdate' => pc = Writer(key)

C28_Frame == [][C28_Step]_vars

\* find_hotels has written hotel_info and the log, and flight_info is still
\* what find_flights wrote.
C28_Witness ==
    /\ trace = << "parse_user_prompt", "find_flights", "find_hotels" >>
    /\ DOMAIN lastUpdate = {"hotel_info", "intermediate_steps"}
    /\ state.hotel_info = << "Flight", "6E-204" >>
    /\ state.flight_info = << "Flight", "6E-204" >>
    /\ state.user_prompt = << "Goa", "from", "Mumbai" >>

SearchNodes == {"find_flights", "find_hotels", "find_activities"}

\* What holds when a search node is due.
SearchStartsClean ==
    pc \in SearchNodes =>
        /\ "error" \notin DOMAIN state
        /\ "parsed_prompt" \in DOMAIN state
        /\ \A key \in RequiredKeys : state.parsed_prompt[key] \notin {None, ""}

\* C29: whenever a search node is due, error is unset and parsed_prompt is
\* set with non-empty origin, destination, departure_date and return_date;
\* hotel_info is set only if flight_info is and activity_info only if
\* hotel_info is; and a step that sets an info field starts from a state
\* without error.
C29_Step ==
    \A key \in {"flight_info", "hotel_info", "activity_info"} :
        (key \in DOMAIN state' /\ key \notin DOMAIN state) =>
            /\ "error" \notin DOMAIN state
            /\ pc = Writer(key)

C29_ChainOrder ==
    /\ [](SearchStartsClean)
    /\ []("hotel_info" \in DOMAIN state => "flight_info" \in DOMAIN state)
    /\ []("activity_info" \in DOMAIN state => "hotel_info" \in DOMAIN state)
    /\ [][C29_Step]_vars

\* find_activities is due after both earlier searches have set their fields.
C29_Witness ==
    /\ pc = "find_activities"
    /\ "hotel_info" \in DOMAIN state
    /\ "flight_info" \in DOMAIN state
    /\ "error" \notin DOMAIN state
    /\ state.parsed_prompt.origin /= ""

DepartureError == << "Departure", "date", "must", "be", "in", "the", "future." >>

\* The extracted object has all required fields and two dates that parse.
DatesParse ==
    /\ Extracted
    /\ MissingFields(extracted.data) = << >>
    /\ extracted.data["departure_date"] \in WellFormedDates
    /\ extracted.data["return_date"] \in WellFormedDates

\* C30: for dates that parse, parse records "Departure date must be in the
\* future." exactly when midnight of the departure day is before the current
\* instant; so at any instant after midnight of the current day a departure
\* on the current day is rejected with that error, and a parsed request
\* exists only for a departure on the next day or later.
C30_DepartureAfterNow ==
    DatesParse =>
        LET dep == extracted.data["departure_date"] IN
        /\ (Truthy(state, "error") /\ state.error = DepartureError)
              <=> DayNumber(dep) * TicksPerDay < clock
        /\ clock > Today * TicksPerDay =>
              /\ DayNumber(dep) = Today =>
                    /\ Truthy(state, "error")
                    /\ state.error = DepartureError
                    /\ "parsed_prompt" \notin DOMAIN state
              /\ "parsed_prompt" \in DOMAIN state => DayNumber(dep) >= Today + 1

\* A departure on the current day was rejected at an instant after midnight.
C30_Witness ==
    /\ DatesParse
    /\ DayNumber(extracted.data["departure_date"]) = Today
    /\ clock > Today * TicksPerDay
    /\ Truthy(state, "error")
    /\ state.error = DepartureError
    /\ pc = "compile_plan"

\* The run of a request on its own: the nodes applied one after the other
\* to the request's prompt and to the answers its calls got.
RECURSIVE Replay(_, _, _)
Replay(r, inputs, clk) ==
    IF inputs = << >> THEN r
    ELSE Replay(Advance(r, r.state, Head(inputs), clk), Tail(inputs), clk)

Alone(r) == Replay(NewRequest(r.prompt), r.inputs, clock)

\* C21: in every interleaving of the steps of two requests, the node due, the
\* state and the stream of each request are what the run of that request on
\* its own gives for its prompt and the answers to its own calls; and every
\* step changes one request and leaves the other as it is.
C21_Step ==
    \E i \in Requests : \A j \in Requests \ {i} : reqs'[j] = reqs[j]

====
